---- MODULE Spec2Model ----
(***************************************************************************)
(* Reservation request orchestration and risk verification of              *)
(* ltopalis/ticket_management_api.                                         *)
(*                                                                         *)
(* The handlers of src/server.ts (POST /createReservation, GET /c/:id,     *)
(* GET /d/:id), verifyRecaptchaV3 of src/recaptcha.ts and                  *)
(* sendReservationEmail of mailer.ts, as one state machine per request.    *)
(* One action is one run of JavaScript between two suspension points       *)
(* (await), or one answer of an external collaborator (the scoring         *)
(* service, the deadline timer, the database, the QR encoder, the SMTP     *)
(* transport).                                                             *)
(***************************************************************************)
EXTENDS Integers, Sequences, FiniteSets, TLC

VARIABLES cfg, st

vars == <<cfg, st>>

(***************************************************************************)
(* Values                                                                  *)
(***************************************************************************)

\* JavaScript's undefined, for string-valued places.
None == "undefined"

\* An absent numeric score (typeof json.score !== "number").
NoScore == -1

\* Request slots. Spec runs the first one only.
Reqs == {1, 2}

Routes == {"createReservation", "c", "d"}

\* The outcome codes the handlers and the mailer name.
EligibleCodes == {"CREATED_ACTIVE", "CREATED_PENDING", "CREATED_CANCELED"}

ClosedCodes ==
    EligibleCodes \cup
    { "DUPLICATE_SAME_DATETIME",
      "PERFORMANCE_THEATER_NOT_FOUND", "PERFORMANCE_DATETIME_NOT_FOUND",
      "MISSING_FIELDS", "INVALID_NUM_SEATS", "INVALID_DATE_TIME_FORMAT",
      "INVALID_PHONE", "NO_RESERVATION", "NO_PERMISSION" }

\* What result.code can be: a code of the closed set, a code outside it, or
\* no code at all (None).
UnknownCode == "SOMETHING_ELSE"
ResultCodes == ClosedCodes \cup {UnknownCode, None}

(***************************************************************************)
(* Start-up configuration (process.env, read once when the modules load)   *)
(***************************************************************************)

\* String.prototype.trim on the strings of this model.
Trim(s) ==
    CASE s = " reserve " -> "reserve"
      [] s = " "         -> ""
      [] OTHER           -> s

\* process.env as the process finds it. An unset variable is None.
Envs ==
    [ RECAPTCHA_SECRET_KEY        : {None, "secret"},
      RECAPTCHA_MIN_SCORE         : {None, "0.7"},
      RECAPTCHA_EXPECTED_ACTION   : {None, "reserve"},
      RECAPTCHA_ALLOWED_HOSTNAMES : {None, "good.gr"} ]

\* x || "" for an environment string.
OrEmpty(x) == IF x = None THEN "" ELSE x

RECAPTCHA_SECRET == OrEmpty(cfg.RECAPTCHA_SECRET_KEY)

\* Number(s) of a decimal string, in tenths.
Number(s) ==
    CASE s = "0.5" -> 5
      [] s = "0.7" -> 7

\* Number(process.env.RECAPTCHA_MIN_SCORE ?? "0.5"), in tenths.
RECAPTCHA_MIN_SCORE ==
    Number(IF cfg.RECAPTCHA_MIN_SCORE = None THEN "0.5"
           ELSE cfg.RECAPTCHA_MIN_SCORE)

RECAPTCHA_EXPECTED_ACTION == Trim(OrEmpty(cfg.RECAPTCHA_EXPECTED_ACTION))

\* .split(",").map(trim).filter(Boolean) of a list of at most one name.
RECAPTCHA_ALLOWED_HOSTNAMES ==
    LET raw == Trim(OrEmpty(cfg.RECAPTCHA_ALLOWED_HOSTNAMES))
    IN  IF raw = "" THEN {} ELSE {raw}

(***************************************************************************)
(* Request bodies                                                          *)
(***************************************************************************)

\* z.string().trim().min(1).max(80)
MinNameLen == 1
MaxNameLen == 80

\* A name or surname is its length after trimming; Missing is a body without
\* the field (not a string).
Missing == -1
NameInputs == {Missing, 0, MinNameLen, MaxNameLen, MaxNameLen + 1}
SurnameInputs == {0, MinNameLen, MaxNameLen + 1}
EmailInputs == {"a@b.com", "not-an-email"}
PhoneInputs == {None, "6912345678", "+306912345678", "12345", "abc"}

\* req.body.recaptcha: absent, the empty string, a token.
TokenInputs == {None, "", "tok"}

\* req.body.recaptcha_action: absent, a label, a label to trim, a JSON number.
NonStringAction == "5 (a JSON number)"
ActionInputs == {None, " reserve ", "other", NonStringAction}

CreateBodies ==
    [ name : NameInputs, surname : SurnameInputs, email : EmailInputs,
      phone : PhoneInputs, recaptcha : TokenInputs,
      recaptcha_action : ActionInputs ]

\* The body of a GET /c/:id or /d/:id request: nothing the handlers read.
NoBody ==
    [ name |-> Missing, surname |-> 0, email |-> "a@b.com", phone |-> None,
      recaptcha |-> None, recaptcha_action |-> None ]

\* JavaScript truthiness of a string-valued place.
Truthy(x) == x # None /\ x # ""

\* UserSchema.safeParse: the fields that fail (fieldErrors' keys).
EmailOk(e) == e = "a@b.com"

NameOk(n) == n # Missing /\ n >= MinNameLen /\ n <= MaxNameLen

\* Mutant: the schema does not look at the email.
UserSchema_NoEmail(body) ==
    {f \in {"name"} : ~NameOk(body.name)} \cup
    {f \in {"surname"} : ~NameOk(body.surname)} \cup
    {f \in {"phone"} : body.phone = None}

UserSchema(body) ==
    {f \in {"name"} : ~NameOk(body.name)} \cup
    {f \in {"surname"} : ~NameOk(body.surname)} \cup
    {f \in {"email"} : ~EmailOk(body.email)} \cup
    {f \in {"phone"} : body.phone = None}

\* parsePhoneNumberFromString(phone, "GR"): undefined, or a number with its
\* E.164 form and isValid().
NoPhone == [parsed |-> FALSE, valid |-> FALSE, number |-> None]

parsePhoneNumberFromString(phone) ==
    CASE phone = "6912345678"    ->
            [parsed |-> TRUE, valid |-> TRUE, number |-> "+306912345678"]
      [] phone = "+306912345678" ->
            [parsed |-> TRUE, valid |-> TRUE, number |-> "+306912345678"]
      [] phone = "12345"         ->
            [parsed |-> TRUE, valid |-> FALSE, number |-> "+3012345"]
      [] OTHER                   -> NoPhone

\* Mutant: the isValid() test is dropped.
PhoneRejected_ParsedOnly(p) == ~p.parsed

\* !phoneParsed || !phoneParsed.isValid()
PhoneRejected(p) == ~p.parsed \/ ~p.valid

(***************************************************************************)
(* verifyRecaptchaV3: the checks after the upstream response               *)
(***************************************************************************)

\* The parsed body of the scoring service's answer. A field the service did
\* not send (or sent with another type) is None / NoScore. Scores are in
\* tenths. error-codes is an array of codes, or no array at all.
ScoreInputs == {NoScore, 0, 5, 7, 9}
UpstreamActions == {None, "", "reserve", "other"}
UpstreamHostnames == {None, "", "good.gr", "evil.com"}
UpstreamErrorCodes ==
    { [isArray |-> FALSE, codes |-> <<>>] } \cup
    { [isArray |-> TRUE, codes |-> c] :
        c \in { <<>>, <<"invalid-input-response">>,
                <<"timeout-or-duplicate", "bad-request">> } }

GoogleVerifyResponse ==
    [ success : BOOLEAN, score : ScoreInputs, action : UpstreamActions,
      hostname : UpstreamHostnames, errorCodes : UpstreamErrorCodes ]

\* A RecaptchaVerifyResult. reasons is empty on an accepted result (the key
\* is absent); an absent score / action / hostname is NoScore / None.
Result(ok, reasons, score, action, hostname) ==
    [ ok |-> ok, reasons |-> reasons, score |-> score, action |-> action,
      hostname |-> hostname ]

NoResult == Result(FALSE, <<>>, NoScore, None, None)

\* A response body without any of the fields read: json before the fetch.
NoJson ==
    [ success |-> FALSE, score |-> NoScore, action |-> None,
      hostname |-> None, errorCodes |-> [isArray |-> FALSE, codes |-> <<>>] ]

Rejection(reason) == Result(FALSE, <<reason>>, NoScore, None, None)

\* Mutant: the key is set for every string.
Maybe_AnyString(x) == x

\* maybeAction / maybeHostname: the key is set only for a truthy string.
Maybe(x) == IF Truthy(x) THEN x ELSE None

\* opts as the handler builds it: expectedAction only when truthy.
VerifyOptions(expectedAction) ==
    [expectedAction |-> IF Truthy(expectedAction) THEN expectedAction ELSE None]

\* (RECAPTCHA_EXPECTED_ACTION || opts?.expectedAction || ""), before .trim().
ExpectedRaw(opts) ==
    IF RECAPTCHA_EXPECTED_ACTION # "" THEN RECAPTCHA_EXPECTED_ACTION
    ELSE IF Truthy(opts.expectedAction) THEN opts.expectedAction
    ELSE ""

\* .trim() of a value that is no string throws a TypeError.
ExpectedThrows(opts) == ExpectedRaw(opts) = NonStringAction

\* Mutant: a response without an action passes the action check.
ActionMismatch_AbsentPasses(opts, json) ==
    LET expected == Trim(ExpectedRaw(opts))
    IN  expected # "" /\ json.action # None /\ json.action # expected

\* expected && action !== expected
ActionMismatch(opts, json) ==
    LET expected == Trim(ExpectedRaw(opts))
    IN  expected # "" /\ json.action # expected

\* Mutant: a score equal to the minimum is low as well.
LowScore_Inclusive(json) ==
    json.score # NoScore /\ json.score <= RECAPTCHA_MIN_SCORE

\* typeof score === "number" && score < RECAPTCHA_MIN_SCORE
LowScore(json) == json.score # NoScore /\ json.score < RECAPTCHA_MIN_SCORE

\* Mutant: an empty allow-list allows no hostname.
HostnameNotAllowed_EmptyListDenies(json) ==
    /\ Truthy(json.hostname)
    /\ json.hostname \notin RECAPTCHA_ALLOWED_HOSTNAMES

\* RECAPTCHA_ALLOWED_HOSTNAMES.length && hostname && !..includes(hostname)
HostnameNotAllowed(json) ==
    /\ RECAPTCHA_ALLOWED_HOSTNAMES # {}
    /\ Truthy(json.hostname)
    /\ json.hostname \notin RECAPTCHA_ALLOWED_HOSTNAMES

\* Array.isArray(json?.["error-codes"]) ? json["error-codes"] : []
ErrorCodes(json) ==
    IF json.errorCodes.isArray THEN json.errorCodes.codes ELSE <<>>

\* Mutant: the upstream's error codes are not passed on.
FailureReasons_NotSuccessOnly(errorCodes) == <<"not_success">>

\* Mutant: an empty list of error codes is passed on as it is.
FailureReasons_AsIs(errorCodes) == errorCodes

\* errorCodes.length ? errorCodes : ["not_success"]
FailureReasons(errorCodes) ==
    IF Len(errorCodes) > 0 THEN errorCodes ELSE <<"not_success">>

\* Mutant: the score is checked before the action.
Verdict_ScoreFirst(mismatch, json) ==
    LET carried(ok, reasons) ==
            Result(ok, reasons, json.score, Maybe(json.action),
                   Maybe(json.hostname))
    IN  IF ~json.success
        THEN carried(FALSE, FailureReasons(ErrorCodes(json)))
        ELSE IF LowScore(json)
        THEN carried(FALSE, <<"low_score">>)
        ELSE IF mismatch
        THEN carried(FALSE, <<"unexpected_action">>)
        ELSE IF HostnameNotAllowed(json)
        THEN carried(FALSE, <<"hostname_not_allowed">>)
        ELSE carried(TRUE, <<>>)

\* The returns after the response was read (lines 100-155), given the outcome
\* of the action check, which is all the two copies of the verifier differ in.
Verdict(mismatch, json) ==
    LET carried(ok, reasons) ==
            Result(ok, reasons, json.score, Maybe(json.action),
                   Maybe(json.hostname))
    IN  IF ~json.success
        THEN carried(FALSE, FailureReasons(ErrorCodes(json)))
        ELSE IF mismatch
        THEN carried(FALSE, <<"unexpected_action">>)
        ELSE IF LowScore(json)
        THEN carried(FALSE, <<"low_score">>)
        ELSE IF HostnameNotAllowed(json)
        THEN carried(FALSE, <<"hostname_not_allowed">>)
        ELSE carried(TRUE, <<>>)

\* The result for a response that was read (lines 91-155). Called only where
\* the expected action can be trimmed.
Checks(opts, json) == Verdict(ActionMismatch(opts, json), json)

(***************************************************************************)
(* The older copy of src/recaptcha.ts kept in types/express-session.d.ts   *)
(***************************************************************************)

\* The two copies of verifyRecaptchaV3 in the repository.
Current == "src/recaptcha.ts"
Older == "src/types/express-session.d.ts"
Implementations == {Current, Older}

\* (opts?.expectedAction || RECAPTCHA_EXPECTED_ACTION || ""), before .trim().
OlderExpectedRaw(opts) ==
    IF Truthy(opts.expectedAction) THEN opts.expectedAction
    ELSE IF RECAPTCHA_EXPECTED_ACTION # "" THEN RECAPTCHA_EXPECTED_ACTION
    ELSE ""

OlderExpectedThrows(opts) == OlderExpectedRaw(opts) = NonStringAction

OlderActionMismatch(opts, json) ==
    LET expected == Trim(OlderExpectedRaw(opts))
    IN  expected # "" /\ json.action # expected

OlderChecks(opts, json) == Verdict(OlderActionMismatch(opts, json), json)

(***************************************************************************)
(* Responses                                                               *)
(***************************************************************************)

\* res.status(http).json(body). Of the body: its status and code keys (None
\* when the body has none), fieldErrors' keys, the verifier result under meta,
\* and whether the body is the backend's result object itself.
Response(http, status, code, errors, meta, isResult) ==
    [ http |-> http, status |-> status, code |-> code, errors |-> errors,
      meta |-> meta, isResult |-> isResult ]

NoResponse == Response(0, None, None, {}, NoResult, FALSE)

ValidationError(errors) ==
    Response(400, "VALIDATION_ERROR", None, errors, NoResult, FALSE)

InvalidPhone == Response(400, "INVALID_PHONE", None, {}, NoResult, FALSE)

\* The catch block of every handler.
ServerError == Response(500, "SERVER_ERROR", None, {}, NoResult, FALSE)

\* Mutant: a verifier that could not be reached is answered as a server error.
RecaptchaFailed_TransportError(verify) ==
    IF verify.reasons \in {<<"verify_timeout">>, <<"verify_request_failed">>}
    THEN ServerError
    ELSE Response(200, None, "RECAPTCHA_FAILED", {}, verify, FALSE)

RecaptchaFailed(verify) ==
    Response(200, None, "RECAPTCHA_FAILED", {}, verify, FALSE)

\* rows[0]?.result ?? { ok: false, status: "SERVER_ERROR" }: a result row
\* (its code, and whether it carries person, performance and reservation), or
\* the fallback, which has a status and no code.
BackendResults == [code : ResultCodes, payload : BOOLEAN, fallback : {FALSE}]

Fallback == [code |-> None, payload |-> FALSE, fallback |-> TRUE]

\* res.status(http).json(result)
ResultResponse(http, result) ==
    Response(http, IF result.fallback THEN "SERVER_ERROR" ELSE None,
             result.code, {}, NoResult, TRUE)

(***************************************************************************)
(* The handlers' branches on result.code                                   *)
(***************************************************************************)

\* Mutant: POST /createReservation notifies for CREATED_ACTIVE only.
Notifies_ActiveOnly(route, code) ==
    CASE route = "createReservation" -> code = "CREATED_ACTIVE"
      [] route = "c" -> code = "CREATED_ACTIVE"
      [] route = "d" -> code = "CREATED_CANCELED"

\* Whether the handler of `route` calls sendReservationEmail for `code`.
Notifies(route, code) ==
    CASE route = "createReservation" ->
            code \in {"CREATED_ACTIVE", "CREATED_PENDING"}
      [] route = "c" -> code = "CREATED_ACTIVE"
      [] route = "d" -> code = "CREATED_CANCELED"

\* Mutant: a result without a code is answered as a server error.
StatusOf_NoCodeIsServerError(route, code) ==
    IF code = None THEN 500
    ELSE CASE route = "createReservation" ->
                ( CASE code \in {"CREATED_ACTIVE", "CREATED_PENDING"} -> 200
                    [] code = "DUPLICATE_SAME_DATETIME" -> 409
                    [] code \in {"PERFORMANCE_THEATER_NOT_FOUND",
                                 "PERFORMANCE_DATETIME_NOT_FOUND"} -> 404
                    [] OTHER -> 400 )
           [] route = "c" -> 200
           [] route = "d" ->
                ( CASE code = "CREATED_CANCELED" -> 200
                    [] code = "NO_RESERVATION" -> 404
                    [] code = "NO_PERMISSION" -> 403
                    [] OTHER -> 400 )

\* The HTTP status the handler of `route` answers a returned result with.
StatusOf(route, code) ==
    CASE route = "createReservation" ->
            ( CASE code \in {"CREATED_ACTIVE", "CREATED_PENDING"} -> 200
                [] code = "DUPLICATE_SAME_DATETIME" -> 409
                [] code \in {"PERFORMANCE_THEATER_NOT_FOUND",
                             "PERFORMANCE_DATETIME_NOT_FOUND"} -> 404
                [] code \in {"MISSING_FIELDS", "INVALID_NUM_SEATS",
                             "INVALID_DATE_TIME_FORMAT", "INVALID_PHONE"} -> 400
                [] OTHER -> 400 )
      [] route = "c" ->
            ( CASE code = "CREATED_ACTIVE" -> 200
                [] OTHER -> 200 )
      [] route = "d" ->
            ( CASE code = "CREATED_CANCELED" -> 200
                [] code = "NO_RESERVATION" -> 404
                [] code = "NO_PERMISSION" -> 403
                [] OTHER -> 400 )

\* mailer.ts: the template the mailer picks for result.code; None is the
\* final else, which throws "Unknown result.code".
TemplateOf(code) ==
    CASE code = "CREATED_ACTIVE"   -> "created_active"
      [] code = "CREATED_CANCELED" -> "created_canceled"
      [] code = "CREATED_PENDING"  -> "created_pending"
      [] OTHER                     -> None

(***************************************************************************)
(* One request                                                             *)
(***************************************************************************)

\* The two copies of the handlers modelled: the current one and the oldest.
Server == "src/server.ts"
OldestServer == "src/unnamed/part_002"

\* How many requests one slot serves, one after the other.
MaxRequests == 2

\* The request slots that run under Spec.
Running == {1}

\* A slot before a request arrives.
Idle(served) ==
    [ pc |-> "Idle", served |-> served, server |-> Server,
      route |-> "createReservation", body |-> NoBody,
      \* verifyRecaptchaV3
      impl |-> Current, verifyCalls |-> 0, token |-> None,
      opts |-> VerifyOptions(None), vpc |-> "none", timer |-> "unset",
      fetches |-> 0, net |-> "none", json |-> NoJson, verify |-> NoResult,
      \* pool.query
      backendCalls |-> 0, backend |-> "none", result |-> Fallback,
      \* sendReservationEmail
      emailCalls |-> 0, mail |-> "idle", mailError |-> None,
      sendMailCalls |-> 0, mailKind |-> None,
      \* res
      responses |-> 0, resp |-> NoResponse ]

\* return res.status(..).json(..): the handler ends.
Respond(q, response) ==
    [q EXCEPT !.pc = "Done", !.resp = response, !.responses = @ + 1]

\* await pool.query(..): the one call to the transactional backend.
Delegate(q) ==
    [q EXCEPT !.pc = "Delegating", !.backendCalls = @ + 1]

\* Mutant: the token is looked at before the secret.
VerifyStart_TokenFirst(q, token, opts) ==
    LET c == [q EXCEPT !.pc = "Verifying", !.verifyCalls = @ + 1,
                       !.token = token, !.opts = opts]
    IN  IF ~Truthy(token)
        THEN [c EXCEPT !.vpc = "returned",
                       !.verify = Rejection("token_missing")]
        ELSE IF RECAPTCHA_SECRET = ""
        THEN [c EXCEPT !.vpc = "returned",
                       !.verify = Rejection("secret_missing")]
        ELSE [c EXCEPT !.vpc = "fetching", !.net = "inflight",
                       !.timer = IF q.impl = Current THEN "armed" ELSE @,
                       !.fetches = @ + 1]

\* verifyRecaptchaV3(token, opts) up to its first await (lines 51-79). Only
\* the current copy arms a timer (lines 64-67).
VerifyStart(q, token, opts) ==
    LET c == [q EXCEPT !.pc = "Verifying", !.verifyCalls = @ + 1,
                       !.token = token, !.opts = opts]
    IN  IF RECAPTCHA_SECRET = ""
        THEN [c EXCEPT !.vpc = "returned",
                       !.verify = Rejection("secret_missing")]
        ELSE IF ~Truthy(token)
        THEN [c EXCEPT !.vpc = "returned",
                       !.verify = Rejection("token_missing")]
        ELSE [c EXCEPT !.vpc = "fetching", !.net = "inflight",
                       !.timer = IF q.impl = Current THEN "armed" ELSE @,
                       !.fetches = @ + 1]

\* Mutant: the catch block does not look at the error's name.
Caught_NameIgnored(aborted) == Rejection("verify_request_failed")

\* The catch block around fetch and resp.json() (lines 81-86).
Caught(aborted) ==
    Rejection(IF aborted THEN "verify_timeout" ELSE "verify_request_failed")

\* Mutant: the catch and finally blocks leave the timer alone.
ClearTimeout_Never(timer) == timer

\* clearTimeout(t) in the catch and finally blocks; the older copy has no
\* timer.
ClearTimeout(timer) == IF timer = "unset" THEN timer ELSE "cleared"

\* Mutant: the verifier is called whether or not a token came.
TokenSupplied_Always(body) == TRUE

\* if (recaptchaToken)
TokenSupplied(body) == Truthy(body.recaptcha)

\* process.env.RECAPTCHA_EXPECTED_ACTION || recaptchaActionFromBody
ExpectedActionOf(body) ==
    IF Truthy(cfg.RECAPTCHA_EXPECTED_ACTION)
    THEN cfg.RECAPTCHA_EXPECTED_ACTION
    ELSE body.recaptcha_action

\* Mutant: the verifier's verdict is ignored.
VerifyFailed_Never(verify) == FALSE

\* if (!verify.ok)
VerifyFailed(verify) == ~verify.ok

\* sendReservationEmail(result) up to its first await (lines 84-109): the
\* destructuring throws on a result without person, performance, reservation.
EmailStart(q) ==
    [q EXCEPT !.pc = "Notifying", !.emailCalls = @ + 1,
              !.mail = IF q.result.payload THEN "qr" ELSE "rejected",
              !.mailError = IF q.result.payload THEN @ ELSE "TypeError"]

\* Mutant: the mailer sends before it looks at the code.
QrSettled_SendsFirst(q, qrOk, templatesFound) ==
    IF ~qrOk
    THEN [q EXCEPT !.mail = "rejected", !.mailError = "QrError"]
    ELSE [q EXCEPT !.mail = "sending", !.mailKind = TemplateOf(q.result.code),
                   !.sendMailCalls = @ + 1]

\* sendReservationEmail after await makeQrPng (lines 109-183): the QR error,
\* the unknown code (line 150), a template that is not found (lines 33-47),
\* or the one call of transporter.sendMail.
QrSettled(q, qrOk, templatesFound) ==
    LET kind == TemplateOf(q.result.code)
    IN  IF ~qrOk
        THEN [q EXCEPT !.mail = "rejected", !.mailError = "QrError"]
        ELSE IF kind = None
        THEN [q EXCEPT !.mail = "rejected", !.mailError = "UnknownCode"]
        ELSE IF ~templatesFound
        THEN [q EXCEPT !.mail = "rejected", !.mailError = "TemplateNotFound"]
        ELSE [q EXCEPT !.mail = "sending", !.mailKind = kind,
                       !.sendMailCalls = @ + 1]

\* Mutant: a failed transporter.sendMail is called again.
SendMailSettled_Retry(q, ok) ==
    IF ok THEN [q EXCEPT !.mail = "resolved"]
    ELSE [q EXCEPT !.sendMailCalls = @ + 1]

\* sendReservationEmail after await transporter.sendMail (lines 172-184).
SendMailSettled(q, ok) ==
    IF ok THEN [q EXCEPT !.mail = "resolved"]
    ELSE [q EXCEPT !.mail = "rejected", !.mailError = "SendMailError"]

\* The handler from `const code = result.code` to its return or to the await
\* of sendReservationEmail.
Classified(q) ==
    IF Notifies(q.route, q.result.code)
    THEN EmailStart(q)
    ELSE Respond(q, ResultResponse(StatusOf(q.route, q.result.code), q.result))

\* Mutant: the catch block of a failed dispatch sends no response.
Notified_SilentFailure(q) ==
    IF q.mail = "resolved"
    THEN Respond(q, ResultResponse(200, q.result))
    ELSE [q EXCEPT !.pc = "Done"]

\* The handler after await sendReservationEmail(result): the response of the
\* outcome code, or the catch block when the mailer threw.
Notified(q) ==
    IF q.mail = "resolved"
    THEN Respond(q, ResultResponse(200, q.result))
    ELSE Respond(q, ServerError)

\* Mutant: a failed query is issued again.
BackendThrew_Retry(q) == Delegate([q EXCEPT !.backend = "threw"])

\* Mutant: a failed query is treated as a query without a row.
BackendThrew_AsNoRow(q) ==
    [q EXCEPT !.pc = "Classifying", !.backend = "threw", !.result = Fallback]

\* The catch block around the backend call.
BackendThrew(q) == Respond([q EXCEPT !.backend = "threw"], ServerError)

\* Mutant: the handlers keep result in a variable of the module, which every
\* request in flight sees.
Set_ModuleLevelResult(r, q) ==
    /\ st' = [s \in Reqs |->
                IF s = r THEN q
                ELSE IF st[s].pc \in {"Idle", "Done"} THEN st[s]
                ELSE [st[s] EXCEPT !.result = q.result]]
    /\ UNCHANGED cfg

\* A step of request r: its handler's locals change; nothing else does (the
\* handlers assign no variable outside their own scope).
Set(r, q) == st' = [st EXCEPT ![r] = q] /\ UNCHANGED cfg

(***************************************************************************)
(* Actions                                                                 *)
(***************************************************************************)

Init ==
    /\ cfg \in Envs
    /\ st = [r \in Reqs |-> Idle(0)]

\* A request arrives. GET /c/:id and /d/:id run straight into their query.
Receive(r) ==
    /\ st[r].pc = "Idle"
    /\ st[r].served < MaxRequests
    /\ \/ \E body \in CreateBodies :
            Set(r, [st[r] EXCEPT !.pc = "Validating", !.body = body,
                                 !.route = "createReservation"])
       \/ \E route \in {"c", "d"} :
            Set(r, Delegate([st[r] EXCEPT !.route = route]))

\* POST /createReservation, lines 82-151: to the first response, or to the
\* await of verifyRecaptchaV3, or to the await of pool.query.
Validate(r) ==
    LET q == st[r]
        errors == UserSchema(q.body)
        phoneParsed == parsePhoneNumberFromString(q.body.phone)
    IN  /\ q.pc = "Validating"
        /\ IF errors # {}
           THEN Set(r, Respond(q, ValidationError(errors)))
           ELSE IF PhoneRejected(phoneParsed)
           THEN Set(r, Respond(q, InvalidPhone))
           ELSE IF TokenSupplied(q.body)
           THEN Set(r, VerifyStart(q, q.body.recaptcha,
                                   VerifyOptions(ExpectedActionOf(q.body))))
           ELSE Set(r, Delegate(q))

\* The scoring service answers and the body parses (lines 80, 87-155): the
\* finally block clears the timer, then the checks run.
UpstreamRespondsWith(r, responses) ==
    LET q == st[r]
    IN  /\ q.pc = "Verifying" /\ q.vpc = "fetching"
        /\ \E json \in responses :
            LET c == [q EXCEPT !.timer = ClearTimeout(@),
                               !.net = "responded", !.json = json]
                throws == IF q.impl = Current THEN ExpectedThrows(q.opts)
                          ELSE OlderExpectedThrows(q.opts)
                result == IF q.impl = Current THEN Checks(q.opts, json)
                          ELSE OlderChecks(q.opts, json)
            IN  IF json.success /\ throws
                THEN Set(r, [c EXCEPT !.vpc = "threw"])
                ELSE Set(r, [c EXCEPT !.vpc = "returned", !.verify = result])

UpstreamResponds(r) == UpstreamRespondsWith(r, GoogleVerifyResponse)

\* fetch or resp.json() rejects for a reason other than the abort
\* (lines 81-86).
UpstreamFails(r) ==
    LET q == st[r]
    IN  /\ q.pc = "Verifying" /\ q.vpc = "fetching"
        /\ Set(r, [q EXCEPT !.timer = ClearTimeout(@), !.net = "failed",
                            !.vpc = "returned", !.verify = Caught(FALSE)])

\* The deadline passes: setTimeout's callback runs ac.abort() (line 67).
TimerFires(r) ==
    LET q == st[r]
    IN  /\ q.pc = "Verifying" /\ q.vpc = "fetching" /\ q.timer = "armed"
        /\ Set(r, [q EXCEPT !.timer = "fired", !.net = "aborted",
                            !.vpc = "aborted"])

\* The aborted fetch rejects with an AbortError (lines 81-85).
AbortCaught(r) ==
    LET q == st[r]
    IN  /\ q.pc = "Verifying" /\ q.vpc = "aborted"
        /\ Set(r, [q EXCEPT !.timer = ClearTimeout(@), !.vpc = "returned",
                            !.verify = Caught(TRUE)])

\* POST /createReservation after await verifyRecaptchaV3 (lines 119-151).
\* The verifier's frame, and the response body it read, are gone.
VerifyReturns(r) ==
    LET q == [st[r] EXCEPT !.json = NoJson]
    IN  /\ q.pc = "Verifying"
        /\ \/ /\ q.vpc = "returned"
              /\ IF VerifyFailed(q.verify)
                 THEN Set(r, Respond(q, RecaptchaFailed(q.verify)))
                 ELSE Set(r, Delegate(q))
           \/ /\ q.vpc = "threw"
              /\ Set(r, Respond(q, ServerError))

\* The backend returns a row, or no row at all.
BackendReturnsWith(r, results) ==
    LET q == st[r]
    IN  /\ q.pc = "Delegating"
        /\ \E result \in results :
            Set(r, [q EXCEPT !.pc = "Classifying", !.backend = "returned",
                             !.result = result])

BackendReturns(r) == BackendReturnsWith(r, BackendResults \cup {Fallback})

\* pool.query rejects.
BackendThrows(r) ==
    /\ st[r].pc = "Delegating"
    /\ Set(r, BackendThrew(st[r]))

\* The branches on result.code.
Classify(r) ==
    /\ st[r].pc = "Classifying"
    /\ Set(r, Classified(st[r]))

\* makeQrPng settles; on success the mailer runs on to transporter.sendMail
\* (lines 109-183) unless a template is missing or the code is unknown.
QrSettles(r) ==
    LET q == st[r]
    IN  /\ q.pc = "Notifying" /\ q.mail = "qr"
        /\ \E qrOk \in BOOLEAN, templatesFound \in BOOLEAN :
            Set(r, QrSettled(q, qrOk, templatesFound))

\* transporter.sendMail settles.
SendMailSettles(r) ==
    LET q == st[r]
    IN  /\ q.pc = "Notifying" /\ q.mail = "sending"
        /\ \E ok \in BOOLEAN : Set(r, SendMailSettled(q, ok))

\* The handler after await sendReservationEmail.
NotifyReturns(r) ==
    LET q == st[r]
    IN  /\ q.pc = "Notifying" /\ q.mail \in {"resolved", "rejected"}
        /\ Set(r, Notified(q))

\* The slot takes the next request.
NextRequest(r) ==
    /\ st[r].pc = "Done"
    /\ st[r].served + 1 < MaxRequests
    /\ Set(r, Idle(st[r].served + 1))

Step(r) ==
    \/ Receive(r)
    \/ Validate(r)
    \/ UpstreamResponds(r)
    \/ UpstreamFails(r)
    \/ TimerFires(r)
    \/ AbortCaught(r)
    \/ VerifyReturns(r)
    \/ BackendReturns(r)
    \/ BackendThrows(r)
    \/ Classify(r)
    \/ QrSettles(r)
    \/ SendMailSettles(r)
    \/ NotifyReturns(r)
    \/ NextRequest(r)

Next == \E r \in Running : Step(r)

Spec == Init /\ [][Next]_vars


(***************************************************************************)
(* verifyRecaptchaV3 called on its own                                     *)
(***************************************************************************)

\* opts.expectedAction of a typed caller: absent, empty, labels.
ExpectedActionInputs == {None, "", " reserve ", "reserve", "other"}

\* A caller other than the handler invokes either copy with any token and any
\* expected action.
Invoke(r) ==
    /\ st[r].pc = "Idle"
    /\ \E impl \in Implementations, token \in TokenInputs,
          expectedAction \in ExpectedActionInputs :
            Set(r, VerifyStart([st[r] EXCEPT !.route = "verifyRecaptchaV3",
                                            !.impl = impl],
                               token, [expectedAction |-> expectedAction]))

StepVerify(r) ==
    \/ Invoke(r)
    \/ UpstreamResponds(r)
    \/ UpstreamFails(r)
    \/ TimerFires(r)
    \/ AbortCaught(r)

NextVerify == \E r \in Running : StepVerify(r)

SpecVerify == Init /\ [][NextVerify]_vars

\* The event loop runs a due timer callback, and an aborted fetch settles.
\* Nothing makes the scoring service answer.
FairSpecVerify ==
    SpecVerify /\ \A r \in Running : WF_vars(TimerFires(r)) /\ WF_vars(AbortCaught(r))

(***************************************************************************)
(* Two POST /createReservation requests in flight at once                  *)
(***************************************************************************)

\* A failing body, a valid one without a token, a valid one with a token.
ConcurrentBodies ==
    { [ name |-> n, surname |-> MinNameLen, email |-> "a@b.com",
        phone |-> "6912345678", recaptcha |-> t, recaptcha_action |-> None ] :
        n \in {0, MinNameLen}, t \in {None, "tok"} }

\* The scoring service accepts with a high score, or reports a failure.
ConcurrentResponses ==
    { [ success |-> ok, score |-> 9, action |-> "reserve",
        hostname |-> "good.gr",
        errorCodes |-> [isArray |-> FALSE, codes |-> <<>>] ] :
        ok \in BOOLEAN }

\* The backend creates a reservation, finds a duplicate, or returns no row.
ConcurrentResults ==
    { [code |-> "CREATED_ACTIVE", payload |-> TRUE, fallback |-> FALSE],
      [code |-> "DUPLICATE_SAME_DATETIME", payload |-> FALSE,
       fallback |-> FALSE],
      Fallback }

\* A POST /createReservation request arrives with one of `bodies`.
ReceiveCreate(r, bodies) ==
    /\ st[r].pc = "Idle"
    /\ \E body \in bodies :
            Set(r, [st[r] EXCEPT !.pc = "Validating", !.body = body,
                                 !.route = "createReservation"])

ConcurrentReceive(r) == ReceiveCreate(r, ConcurrentBodies)

ConcurrentUpstreamResponds(r) == UpstreamRespondsWith(r, ConcurrentResponses)

ConcurrentBackendReturns(r) == BackendReturnsWith(r, ConcurrentResults)

\* The steps of one of the requests in flight.
ConcurrentStep(r) ==
    \/ ConcurrentReceive(r)
    \/ Validate(r)
    \/ ConcurrentUpstreamResponds(r)
    \/ UpstreamFails(r)
    \/ TimerFires(r)
    \/ AbortCaught(r)
    \/ VerifyReturns(r)
    \/ ConcurrentBackendReturns(r)
    \/ BackendThrows(r)
    \/ Classify(r)
    \/ QrSettles(r)
    \/ SendMailSettles(r)
    \/ NotifyReturns(r)

\* The host runs the handlers of both requests, one step at a time.
ConcurrentNext == \E r \in Reqs : ConcurrentStep(r)

SpecConcurrent == Init /\ [][ConcurrentNext]_vars

(***************************************************************************)
(* One POST /createReservation request whose collaborators all answer      *)
(***************************************************************************)

\* Bodies for every way through the stages: a failing name, a phone that
\* does not normalize, no token, a token, a token with an action that is
\* no string.
StageBodies ==
    { [ name |-> n, surname |-> MinNameLen, email |-> "a@b.com",
        phone |-> p, recaptcha |-> t, recaptcha_action |-> a ] :
        n \in {0, MinNameLen}, p \in {"6912345678", "12345"},
        t \in {None, "tok"}, a \in {None, NonStringAction} }

StageReceive(r) == ReceiveCreate(r, StageBodies)

StageUpstreamResponds(r) == UpstreamRespondsWith(r, ConcurrentResponses)

StageStep(r) ==
    \/ StageReceive(r)
    \/ Validate(r)
    \/ StageUpstreamResponds(r)
    \/ UpstreamFails(r)
    \/ TimerFires(r)
    \/ AbortCaught(r)
    \/ VerifyReturns(r)
    \/ BackendReturns(r)
    \/ BackendThrows(r)
    \/ Classify(r)
    \/ QrSettles(r)
    \/ SendMailSettles(r)
    \/ NotifyReturns(r)

StageNext == \E r \in Running : StageStep(r)

\* Every collaborator the request waits for returns or throws in the end,
\* and the event loop runs every continuation that is ready.
FairSpecStages ==
    Init /\ [][StageNext]_vars /\ \A r \in Running : WF_vars(StageStep(r))

(***************************************************************************)
(* sendReservationEmail called on its own                                  *)
(***************************************************************************)

\* A caller other than the handlers invokes the mailer with any result.
InvokeMailer(r) ==
    /\ st[r].pc = "Idle"
    /\ \E result \in BackendResults \cup {Fallback} :
            Set(r, EmailStart([st[r] EXCEPT !.route = "sendReservationEmail",
                                           !.result = result]))

StepMailer(r) ==
    \/ InvokeMailer(r)
    \/ QrSettles(r)
    \/ SendMailSettles(r)

NextMailer == \E r \in Running : StepMailer(r)

SpecMailer == Init /\ [][NextMailer]_vars

(***************************************************************************)
(* The oldest copy of the handlers (part_002): no risk check, and the      *)
(* mailer is called without await                                          *)
(***************************************************************************)

\* Bodies for the oldest copy, whose schema lets the email be absent.
OldestBodies ==
    [ name : {Missing, MinNameLen}, surname : {MinNameLen},
      email : {None, "a@b.com", "not-an-email"},
      phone : {"6912345678", "12345"}, recaptcha : {None},
      recaptcha_action : {None} ]

\* Its UserSchema: email is .optional().or(z.literal("")).
OldestUserSchema(body) ==
    {f \in {"name"} : ~NameOk(body.name)} \cup
    {f \in {"surname"} : ~NameOk(body.surname)} \cup
    {f \in {"email"} : Truthy(body.email) /\ ~EmailOk(body.email)} \cup
    {f \in {"phone"} : body.phone = None}

InvalidEmail == Response(400, "INVALID_EMAIL", None, {}, NoResult, FALSE)

\* sendReservationEmail(result); return res.status(..).json(result): the
\* mailer runs to its first await, its promise is dropped, and the response
\* is sent in the same run.
OldestClassified(q) ==
    IF Notifies(q.route, q.result.code)
    THEN Respond([q EXCEPT !.emailCalls = @ + 1,
                           !.mail = IF q.result.payload THEN "qr"
                                    ELSE "rejected",
                           !.mailError = IF q.result.payload THEN @
                                         ELSE "TypeError"],
                 ResultResponse(200, q.result))
    ELSE Respond(q, ResultResponse(StatusOf(q.route, q.result.code), q.result))

\* A request arrives at the oldest copy: POST /createReservation or GET /c/:id.
OldestReceive(r) ==
    /\ st[r].pc = "Idle"
    /\ \/ \E body \in OldestBodies :
            Set(r, [st[r] EXCEPT !.pc = "Validating", !.body = body,
                                 !.server = OldestServer,
                                 !.route = "createReservation"])
       \/ Set(r, Delegate([st[r] EXCEPT !.server = OldestServer,
                                        !.route = "c"]))

\* POST /createReservation of the oldest copy, lines 41-95.
OldestValidate(r) ==
    LET q == st[r]
        errors == OldestUserSchema(q.body)
    IN  /\ q.pc = "Validating" /\ q.server = OldestServer
        /\ IF errors # {}
           THEN Set(r, Respond(q, ValidationError(errors)))
           ELSE IF ~Truthy(q.body.email)
           THEN Set(r, Respond(q, InvalidEmail))
           ELSE IF PhoneRejected(parsePhoneNumberFromString(q.body.phone))
           THEN Set(r, Respond(q, InvalidPhone))
           ELSE Set(r, Delegate(q))

\* pool.query rejects. POST /createReservation catches it (lines 121-129);
\* GET /c/:id has no try: the handler's promise rejects, and the request is
\* left unanswered or answered 500 by the framework, as its version has it.
OldestBackendThrows(r) ==
    LET q == [st[r] EXCEPT !.backend = "threw"]
    IN  /\ q.pc = "Delegating" /\ q.server = OldestServer
        /\ IF q.route = "createReservation"
           THEN Set(r, Respond(q, ServerError))
           ELSE \/ Set(r, [q EXCEPT !.pc = "Unanswered"])
                \/ Set(r, Respond(q, Response(500, None, None, {}, NoResult,
                                              FALSE)))

\* The branches on result.code of the oldest copy (lines 97-119, 142-148).
OldestClassify(r) ==
    /\ st[r].pc = "Classifying" /\ st[r].server = OldestServer
    /\ Set(r, OldestClassified(st[r]))

\* The dropped mailer call goes on after the response: makeQrPng settles.
DroppedQrSettles(r) ==
    LET q == st[r]
    IN  /\ q.server = OldestServer /\ q.mail = "qr"
        /\ \E qrOk \in BOOLEAN, templatesFound \in BOOLEAN :
            Set(r, QrSettled(q, qrOk, templatesFound))

\* transporter.sendMail of the dropped call settles.
DroppedSendMailSettles(r) ==
    LET q == st[r]
    IN  /\ q.server = OldestServer /\ q.mail = "sending"
        /\ \E ok \in BOOLEAN : Set(r, SendMailSettled(q, ok))

OldestStep(r) ==
    \/ OldestReceive(r)
    \/ OldestValidate(r)
    \/ BackendReturns(r)
    \/ OldestBackendThrows(r)
    \/ OldestClassify(r)
    \/ DroppedQrSettles(r)
    \/ DroppedSendMailSettles(r)

OldestNext == \E r \in Running : OldestStep(r)

SpecOldest == Init /\ [][OldestNext]_vars

(***************************************************************************)
(* Properties                                                              *)
(***************************************************************************)

\* The requests of POST /createReservation that have arrived.
Created == {r \in Reqs : st[r].pc # "Idle" /\ st[r].route = "createReservation"}

\* The requests that have ended (a response was sent).
Ended == {r \in Reqs : st[r].pc = "Done"}

\* The phone parses to a valid number.
PhoneValid(body) ==
    LET p == parsePhoneNumberFromString(body.phone)
    IN  p.parsed /\ p.valid

\* Step 1 passed: the schema accepts the body and the phone normalizes.
InputValid(body) == UserSchema(body) = {} /\ PhoneValid(body)

\* The body carries a risk token.
HasToken(body) == body.recaptcha \notin {None, ""}

\* verifyRecaptchaV3 returned ok: true to the handler.
Accepted(q) == q.verifyCalls = 1 /\ q.vpc = "returned" /\ q.verify.ok

\* C1: in POST /createReservation the backend is called only after field
\* validation and phone normalization succeeded and, when the request carried
\* a risk token, verifyRecaptchaV3 returned ok: true; a request on any other
\* path has made no backend call.
C1_BackendOnlyAfterChecks ==
    \A r \in Created :
        st[r].backendCalls > 0 =>
            /\ InputValid(st[r].body)
            /\ HasToken(st[r].body) => Accepted(st[r])

C1_Witness ==
    \E r \in Created :
        /\ st[r].backendCalls = 1
        /\ HasToken(st[r].body)
        /\ Accepted(st[r])

\* The template of the notification kind that matches an outcome code:
\* active-confirmation, pending-with-conflict, cancellation.
KindOf(code) ==
    CASE code = "CREATED_ACTIVE"   -> "created_active"
      [] code = "CREATED_PENDING"  -> "created_pending"
      [] code = "CREATED_CANCELED" -> "created_canceled"
      [] OTHER                     -> None

\* At most one dispatch, and a message that is sent is of the code's kind.
DispatchSound(q) ==
    /\ q.emailCalls <= 1
    /\ q.sendMailCalls <= q.emailCalls
    /\ q.sendMailCalls = 1 => q.mailKind = KindOf(q.result.code)

\* The number of dispatches an ended request has made, given the codes that
\* call for one.
DispatchesAre(q, codes) ==
    q.emailCalls =
        IF q.backend = "returned" /\ q.result.code \in codes THEN 1 ELSE 0

\* C2 as stated: an ended POST /createReservation request has made exactly
\* one dispatch, of the matching kind, if the backend returned CREATED_ACTIVE,
\* CREATED_PENDING or CREATED_CANCELED, and none otherwise.
C2_Original ==
    \A r \in Created :
        /\ DispatchSound(st[r])
        /\ r \in Ended => DispatchesAre(st[r], EligibleCodes)

\* C2, amended: POST /createReservation makes exactly one dispatch, of the
\* matching kind, for CREATED_ACTIVE and CREATED_PENDING and none for any
\* other code (CREATED_CANCELED included) or when the request ends before the
\* backend returns; the one cancellation dispatch for CREATED_CANCELED is
\* made by GET /d/:id; no request makes more than one dispatch.
C2_DispatchPerOutcome ==
    \A r \in Reqs :
        /\ DispatchSound(st[r])
        /\ (r \in Ended /\ st[r].route = "createReservation") =>
                DispatchesAre(st[r], {"CREATED_ACTIVE", "CREATED_PENDING"})
        /\ (r \in Ended /\ st[r].route = "d") =>
                DispatchesAre(st[r], {"CREATED_CANCELED"})

C2_Witness ==
    \E r \in Created \cap Ended :
        /\ st[r].result.code = "CREATED_PENDING"
        /\ st[r].emailCalls = 1
        /\ st[r].sendMailCalls = 1
        /\ st[r].mailKind = "created_pending"

\* C3: when the backend returned an outcome code the handler notifies for,
\* the caller receives the success response of that code whether the
\* dispatch succeeded or failed.
C3_ResponseSurvivesDispatchFailure ==
    \A r \in Ended :
        (st[r].backend = "returned" /\ st[r].emailCalls = 1) =>
            st[r].resp = Response(200, None, st[r].result.code, {}, NoResult,
                                  TRUE)

\* C4: no handler answers a result whose code is outside the closed set (or
\* missing) with anything but 400.
C4_UnrecognizedIsClientError ==
    \A r \in Ended :
        (st[r].backend = "returned" /\ st[r].result.code \notin ClosedCodes) =>
            st[r].resp.http = 400

\* The fixed table of the specification, outcome code -> status.
TableStatus(code) ==
    CASE code \in EligibleCodes -> 200
      [] code = "DUPLICATE_SAME_DATETIME" -> 409
      [] code \in {"PERFORMANCE_THEATER_NOT_FOUND",
                   "PERFORMANCE_DATETIME_NOT_FOUND", "NO_RESERVATION"} -> 404
      [] code \in {"MISSING_FIELDS", "INVALID_NUM_SEATS",
                   "INVALID_DATE_TIME_FORMAT", "INVALID_PHONE"} -> 400
      [] code = "NO_PERMISSION" -> 403
      [] OTHER -> 400

\* C5: the status POST /createReservation answers a returned outcome code of
\* the closed set with is the table's.
C5_StatusIsTable ==
    \A r \in Created \cap Ended :
        (st[r].backend = "returned" /\ st[r].result.code \in ClosedCodes) =>
            st[r].resp.http = TableStatus(st[r].result.code)

\* A phone string that cannot be parsed as a valid number.
BadPhone(body) == body.phone # None /\ ~PhoneValid(body)

\* No verifier call, no backend call, no dispatch.
NoSideEffects(q) ==
    q.verifyCalls = 0 /\ q.fetches = 0 /\ q.backendCalls = 0 /\
    q.emailCalls = 0 /\ q.sendMailCalls = 0

\* C6 as stated: every POST /createReservation request with an unparseable
\* phone ends with the INVALID_PHONE rejection, with no verifier call, no
\* backend call and no dispatch.
C6_Original ==
    \A r \in Created :
        BadPhone(st[r].body) =>
            /\ NoSideEffects(st[r])
            /\ r \in Ended =>
                st[r].resp = Response(400, "INVALID_PHONE", None, {}, NoResult,
                                      FALSE)

\* C6, amended: every POST /createReservation request with an unparseable
\* phone makes no verifier call, no backend call and no dispatch, and ends
\* with a 400 rejection: INVALID_PHONE when name, surname and email pass the
\* schema, VALIDATION_ERROR (which is checked first) when one of them fails.
C6_BadPhoneRejected ==
    \A r \in Created :
        BadPhone(st[r].body) =>
            /\ NoSideEffects(st[r])
            /\ r \in Ended =>
                /\ st[r].resp.http = 400
                /\ st[r].resp.status =
                        IF UserSchema(st[r].body) = {} THEN "INVALID_PHONE"
                        ELSE "VALIDATION_ERROR"

C6_Witness ==
    \E r \in Created \cap Ended :
        /\ st[r].body.phone = "12345"
        /\ UserSchema(st[r].body) = {}
        /\ HasToken(st[r].body)
        /\ st[r].resp.status = "INVALID_PHONE"

\* C7: a POST /createReservation request with no risk token and valid
\* identity fields and phone never invokes verifyRecaptchaV3 and, once
\* validated, has invoked the backend, under every configuration.
C7_NoTokenSkipsVerifier ==
    \A r \in Created :
        (~HasToken(st[r].body) /\ InputValid(st[r].body)) =>
            /\ st[r].verifyCalls = 0 /\ st[r].fetches = 0
            /\ st[r].pc # "Validating" => st[r].backendCalls = 1

C7_Witness ==
    \E r \in Created \cap Ended :
        /\ st[r].body.recaptcha = None
        /\ InputValid(st[r].body)
        /\ cfg.RECAPTCHA_SECRET_KEY = None
        /\ st[r].backendCalls = 1
        /\ st[r].verifyCalls = 0

\* C8: a POST /createReservation request that passed validation and (with a
\* token) verification has invoked the backend exactly once when it ends,
\* whether the call returned or threw; no request invokes it twice.
C8_BackendExactlyOnce ==
    \A r \in Created :
        /\ st[r].backendCalls <= 1
        /\ st[r].pc \in {"Delegating", "Classifying", "Notifying"} =>
                st[r].backendCalls = 1
        /\ ( /\ r \in Ended
             /\ InputValid(st[r].body)
             /\ HasToken(st[r].body) => Accepted(st[r]) ) =>
                /\ st[r].backendCalls = 1
                /\ st[r].backend \in {"returned", "threw"}

C8_Witness ==
    \E r \in Created \cap Ended :
        /\ HasToken(st[r].body)
        /\ Accepted(st[r])
        /\ st[r].backend = "threw"
        /\ st[r].backendCalls = 1

\* C9: when the backend call of POST /createReservation throws, the request
\* ends with 500 SERVER_ERROR, one backend call and no dispatch.
C9_BackendThrowIsServerError ==
    \A r \in Created :
        st[r].backend = "threw" =>
            /\ r \in Ended
            /\ st[r].resp = Response(500, "SERVER_ERROR", None, {}, NoResult,
                                     FALSE)
            /\ st[r].backendCalls = 1
            /\ st[r].emailCalls = 0 /\ st[r].sendMailCalls = 0

C9_Witness ==
    \E r \in Created \cap Ended :
        /\ st[r].backend = "threw"
        /\ st[r].resp.http = 500
        /\ ~HasToken(st[r].body)

\* C10: when a token was supplied and verifyRecaptchaV3 returned a rejection
\* (whatever its reasons), POST /createReservation ends with HTTP 200,
\* code RECAPTCHA_FAILED and the verifier's result under meta, and has made
\* no backend call and no dispatch.
C10_RejectionIsSoftAccepted ==
    \A r \in Created \cap Ended :
        ( /\ HasToken(st[r].body)
          /\ st[r].vpc = "returned"
          /\ ~st[r].verify.ok ) =>
            /\ st[r].verify.reasons # <<>>
            /\ st[r].resp = Response(200, None, "RECAPTCHA_FAILED", {},
                                     st[r].verify, FALSE)
            /\ st[r].backendCalls = 0
            /\ st[r].emailCalls = 0 /\ st[r].sendMailCalls = 0

C10_Witness ==
    \E r \in Created \cap Ended :
        /\ st[r].verify.reasons = <<"verify_timeout">>
        /\ st[r].resp.http = 200
        /\ st[r].resp.code = "RECAPTCHA_FAILED"
        /\ st[r].resp.meta.reasons = <<"verify_timeout">>

(***************************************************************************)
(* Properties of verifyRecaptchaV3                                         *)
(***************************************************************************)

\* The invocations that hold a result their caller has not yet resumed with.
Returned == {r \in Reqs : st[r].pc = "Verifying" /\ st[r].vpc = "returned"}

\* Those of them whose result follows a response that was read.
Answered == {r \in Returned : st[r].net = "responded"}

\* The action check of the copy that ran.
MismatchOf(q) ==
    IF q.impl = Current THEN ActionMismatch(q.opts, q.json)
    ELSE OlderActionMismatch(q.opts, q.json)

\* The checks a response fails, numbered in the order of the claim:
\* 2 upstream failure, 3 action, 4 score, 5 hostname.
FailedChecks(q) ==
    {i \in {2} : ~q.json.success} \cup
    {i \in {3} : MismatchOf(q)} \cup
    {i \in {4} : LowScore(q.json)} \cup
    {i \in {5} : HostnameNotAllowed(q.json)}

\* The reason list that belongs to one check.
ReasonsOfCheck(i, q) ==
    CASE i = 2 -> IF q.json.errorCodes.isArray /\ q.json.errorCodes.codes # <<>>
                  THEN q.json.errorCodes.codes ELSE <<"not_success">>
      [] i = 3 -> <<"unexpected_action">>
      [] i = 4 -> <<"low_score">>
      [] i = 5 -> <<"hostname_not_allowed">>

Earliest(S) == CHOOSE i \in S : \A j \in S : i <= j

\* C11: a response that was read is checked in the order upstream failure,
\* action, score, hostname, and the verifier stops at the first check that
\* fails: the result is accepted when no check fails, and otherwise its
\* reasons are those of the earliest failing check and of no later one (one
\* reason, or the upstream's own list for an upstream failure).
C11_EarliestFailingCheckOnly ==
    \A r \in Answered :
        LET q == st[r]
            failed == FailedChecks(q)
        IN  /\ q.verify.ok <=> failed = {}
            /\ failed # {} =>
                 q.verify.reasons = ReasonsOfCheck(Earliest(failed), q)
            /\ failed # {} /\ Earliest(failed) > 2 =>
                 Len(q.verify.reasons) = 1

\* A successful response fails the action, score and hostname checks at once
\* and is rejected for the action alone.
C11_Witness ==
    \E r \in Answered :
        /\ FailedChecks(st[r]) = {3, 4, 5}
        /\ st[r].verify.reasons = <<"unexpected_action">>

\* The invocations of the current copy, the one with a time budget.
Timed == {r \in Reqs : st[r].pc = "Verifying" /\ st[r].impl = Current}

\* C12: when the time budget expires while the call is in flight, the call is
\* aborted and the result is a rejection whose only reason is verify_timeout,
\* with no field of any response in it; a transport failure before the expiry
\* gives exactly verify_request_failed; verify_timeout is given for nothing
\* else.
C12_TimeoutIsVerifyTimeout ==
    \A r \in Timed :
        LET q == st[r]
        IN  /\ q.timer = "fired" => q.vpc = "aborted" /\ q.net = "aborted"
            /\ q.net = "aborted" /\ q.vpc # "aborted" =>
                 /\ q.vpc = "returned"
                 /\ q.verify = Rejection("verify_timeout")
                 /\ q.json = NoJson
            /\ q.net = "failed" =>
                 /\ q.vpc = "returned"
                 /\ q.verify = Rejection("verify_request_failed")
            /\ r \in Returned /\ q.verify.reasons = <<"verify_timeout">> =>
                 q.net = "aborted"

\* The budget expired during the call and the caller is handed verify_timeout.
C12_Witness ==
    \E r \in Timed \cap Returned :
        /\ st[r].net = "aborted"
        /\ st[r].verify.reasons = <<"verify_timeout">>

\* C13: every invocation of the verifier ends by handing its caller a result,
\* accepted or rejected, and has made at most one external request.
C13_ReturnsResultOneRequest ==
    \A r \in Reqs :
        st[r].verifyCalls > 0 => st[r].fetches <= 1 /\ st[r].vpc # "threw"

\* The part of C13 that holds: with a silent scoring service the current copy
\* still ends, through its timer.
C13_CurrentCopyEnds ==
    \A r \in Running :
        (st[r].vpc = "fetching" /\ st[r].impl = Current)
            ~> (st[r].vpc \in {"returned", "threw"})

\* C14: for a response whose success flag is false or absent the result is a
\* rejection whose reasons are the upstream's error codes when that list is
\* not empty, and not_success alone when it is empty or missing, whatever the
\* action, score and hostname of the response are.
C14_UpstreamFailureReasons ==
    \A r \in Answered :
        LET q == st[r]
            codes == q.json.errorCodes
        IN  ~q.json.success =>
              /\ ~q.verify.ok
              /\ codes.isArray /\ codes.codes # <<>> =>
                   q.verify.reasons = codes.codes
              /\ ~codes.isArray \/ codes.codes = <<>> =>
                   q.verify.reasons = <<"not_success">>

\* A failed response without an error-code list, which would also fail the
\* score check, is rejected with not_success alone.
C14_Witness ==
    \E r \in Answered :
        /\ ~st[r].json.success
        /\ ~st[r].json.errorCodes.isArray
        /\ LowScore(st[r].json)
        /\ st[r].verify.reasons = <<"not_success">>

\* The invocations of the verifier, of either copy.
Invoked == {r \in Reqs : st[r].pc = "Verifying"}

\* C15: without a configured secret every invocation, with or without a
\* token, is rejected with exactly secret_missing; with a secret and without
\* a token it is rejected with exactly token_missing; neither makes an
\* external request.
C15_MissingSecretOrToken ==
    \A r \in Invoked :
        LET q == st[r]
        IN  /\ cfg.RECAPTCHA_SECRET_KEY = None =>
                 /\ q.vpc = "returned"
                 /\ q.verify = Rejection("secret_missing")
                 /\ q.fetches = 0 /\ q.net = "none"
            /\ cfg.RECAPTCHA_SECRET_KEY # None /\ q.token \in {None, ""} =>
                 /\ q.vpc = "returned"
                 /\ q.verify = Rejection("token_missing")
                 /\ q.fetches = 0 /\ q.net = "none"

\* Neither a secret nor a token: the missing secret is what is reported.
C15_Witness ==
    \E r \in Invoked :
        /\ cfg.RECAPTCHA_SECRET_KEY = None
        /\ st[r].token = None
        /\ st[r].verify = Rejection("secret_missing")

\* With a secret, a call without a token is rejected with token_missing.
C15_WitnessToken ==
    \E r \in Invoked :
        /\ cfg.RECAPTCHA_SECRET_KEY # None
        /\ st[r].token = None
        /\ st[r].verify = Rejection("token_missing")

\* The expected action the claim puts in force: the configured one whenever
\* one is configured, else the caller's ("" when there is none).
ExpectedInForce(q) ==
    LET configured == Trim(OrEmpty(cfg.RECAPTCHA_EXPECTED_ACTION))
    IN  IF configured # "" THEN configured
        ELSE IF Truthy(q.opts.expectedAction) THEN Trim(q.opts.expectedAction)
        ELSE ""

\* C16: in every copy of the verifier and for every caller-supplied value,
\* the expected action is the configured one whenever one is configured and
\* the caller's only otherwise; a successful response is rejected with
\* unexpected_action exactly when an expected action is in force and the
\* response's action differs from it.
C16_ConfiguredActionWins ==
    \A r \in Answered :
        LET q == st[r]
            expected == ExpectedInForce(q)
        IN  q.json.success =>
              ( (expected # "" /\ q.json.action # expected)
                  <=> q.verify.reasons = <<"unexpected_action">> )

\* The successful responses that pass the action check.
PassedAction == {r \in Answered : st[r].json.success /\ ~MismatchOf(st[r])}

\* C17: a successful response that passes the action check is rejected with
\* low_score, the result carrying the observed score, exactly when it has a
\* numeric score strictly below the configured minimum, which is 0.5 unless
\* configured; a score at or above the minimum, or no score, is never
\* low_score.
C17_LowScoreBelowMinimum ==
    /\ cfg.RECAPTCHA_MIN_SCORE = None => RECAPTCHA_MIN_SCORE = 5
    /\ \A r \in PassedAction :
        LET q == st[r]
            below == q.json.score # NoScore /\ q.json.score < RECAPTCHA_MIN_SCORE
        IN  /\ below <=> q.verify.reasons = <<"low_score">>
            /\ below => ~q.verify.ok /\ q.verify.score = q.json.score
            /\ "low_score" \in {q.verify.reasons[i] :
                                  i \in 1..Len(q.verify.reasons)} => below

\* A score of 0 under the default minimum is rejected and carried.
C17_Witness ==
    \E r \in PassedAction :
        /\ cfg.RECAPTCHA_MIN_SCORE = None
        /\ st[r].json.score = 0
        /\ st[r].verify.reasons = <<"low_score">>
        /\ st[r].verify.score = 0

\* A score equal to the minimum is not low.
C17_WitnessEqual ==
    \E r \in PassedAction :
        /\ st[r].json.score = RECAPTCHA_MIN_SCORE
        /\ st[r].verify.ok

\* The successful responses that pass the action check and the score check.
PassedScore ==
    {r \in PassedAction :
        ~(st[r].json.score # NoScore /\ st[r].json.score < RECAPTCHA_MIN_SCORE)}

\* The configured allow-list (at most one name here).
AllowList ==
    IF cfg.RECAPTCHA_ALLOWED_HOSTNAMES = None THEN {}
    ELSE {cfg.RECAPTCHA_ALLOWED_HOSTNAMES}

\* C18: a successful response that passes the action and score checks is
\* rejected with hostname_not_allowed exactly when the allow-list is not
\* empty, the response reports a hostname (a non-empty string), and the
\* hostname is not in the list; otherwise, so with an empty list or without
\* a hostname, it is accepted.
C18_HostnameAllowList ==
    \A r \in PassedScore :
        LET q == st[r]
            reported == q.json.hostname \notin {None, ""}
            outside == /\ AllowList # {}
                       /\ reported
                       /\ q.json.hostname \notin AllowList
        IN  /\ outside <=> q.verify.reasons = <<"hostname_not_allowed">>
            /\ outside => ~q.verify.ok /\ q.verify.hostname = q.json.hostname
            /\ ~outside => q.verify.ok

\* A hostname outside a configured list is rejected.
C18_Witness ==
    \E r \in PassedScore :
        /\ AllowList = {"good.gr"}
        /\ st[r].json.hostname = "evil.com"
        /\ st[r].verify.reasons = <<"hostname_not_allowed">>

\* Without a list any hostname is accepted.
C18_WitnessNoList ==
    \E r \in PassedScore :
        /\ AllowList = {}
        /\ st[r].json.hostname = "evil.com"
        /\ st[r].verify.ok

\* C19 as stated: every result after a response carries each of score,
\* action and hostname if and only if the response supplied that field, with
\* the value supplied (an absent field is NoScore / None on both sides).
C19_Original ==
    \A r \in Answered :
        /\ st[r].verify.score = st[r].json.score
        /\ st[r].verify.action = st[r].json.action
        /\ st[r].verify.hostname = st[r].json.hostname

\* C19: every result after a response, accepted or rejected, carries the
\* score if and only if the response supplied a number (0 included), and the
\* action and the hostname if and only if the response supplied a non-empty
\* string, each with the value supplied.
C19_FieldsCarried ==
    \A r \in Answered :
        LET q == st[r]
        IN  /\ q.verify.score = q.json.score
            /\ q.verify.action =
                 (IF q.json.action = "" THEN None ELSE q.json.action)
            /\ q.verify.hostname =
                 (IF q.json.hostname = "" THEN None ELSE q.json.hostname)

\* An empty action is dropped while a score of 0 and a hostname are carried.
C19_Witness ==
    \E r \in Answered :
        /\ st[r].json.action = "" /\ st[r].verify.action = None
        /\ st[r].json.score = 0 /\ st[r].verify.score = 0
        /\ st[r].json.hostname = "good.gr" /\ st[r].verify.hostname = "good.gr"

\* C20: in every result the verifier returns, from its early returns, from
\* the catch block and after a response, the reason list is empty if and
\* only if the result is accepted.
C20_ReasonsEmptyIffAccepted ==
    \A r \in Returned :
        st[r].verify.ok <=> st[r].verify.reasons = <<>>

\* A failed response with an empty error-code list is rejected with a reason.
C20_Witness ==
    \E r \in Answered :
        /\ ~st[r].json.success
        /\ st[r].json.errorCodes = [isArray |-> TRUE, codes |-> <<>>]
        /\ ~st[r].verify.ok
        /\ st[r].verify.reasons # <<>>

(***************************************************************************)
(* Properties of the handlers, continued                                   *)
(***************************************************************************)

\* The fields of a body that step 1 finds at fault: a name or surname that
\* is missing, empty or over-long, an invalid email, a missing phone.
SchemaFailing(body) ==
    {f \in {"name", "surname", "email", "phone"} :
        \/ f = "name" /\ (body.name = Missing \/ body.name < 1 \/ body.name > 80)
        \/ f = "surname" /\ (body.surname < 1 \/ body.surname > 80)
        \/ f = "email" /\ body.email # "a@b.com"
        \/ f = "phone" /\ body.phone = None}

\* All failing fields: those, and a phone that does not normalize.
FailingFields(body) ==
    SchemaFailing(body) \cup {f \in {"phone"} : ~PhoneValid(body)}

\* C21 as stated: every failure of step 1, a phone that cannot be normalized
\* included, ends the request with a validation error that enumerates the
\* failing fields, before the verifier or the backend is invoked.
C21_Original ==
    \A r \in Created :
        FailingFields(st[r].body) # {} =>
            /\ NoSideEffects(st[r])
            /\ r \in Ended =>
                /\ st[r].resp.http = 400
                /\ st[r].resp.errors = FailingFields(st[r].body)

\* C21, amended: a body whose name, surname, email or phone fails the schema
\* ends with 400 VALIDATION_ERROR enumerating exactly the fields the schema
\* rejects; a body that passes the schema with a phone that cannot be
\* normalized ends with 400 INVALID_PHONE, which enumerates no field; both
\* before the verifier, the backend or the mailer is invoked.
C21_ValidationRejects ==
    \A r \in Created :
        LET q == st[r]
            schema == SchemaFailing(q.body)
        IN  FailingFields(q.body) # {} =>
              /\ NoSideEffects(q)
              /\ q.pc \in {"Validating", "Done"}
              /\ r \in Ended =>
                   q.resp = IF schema # {}
                            THEN Response(400, "VALIDATION_ERROR", None, schema,
                                          NoResult, FALSE)
                            ELSE Response(400, "INVALID_PHONE", None, {},
                                          NoResult, FALSE)

\* A request with a missing name, a bad email and a token ends with the two
\* fields enumerated.
C21_Witness ==
    \E r \in Created \cap Ended :
        /\ st[r].body.name = Missing
        /\ st[r].body.email = "not-an-email"
        /\ st[r].body.surname = 1
        /\ st[r].body.phone = "abc"
        /\ HasToken(st[r].body)
        /\ st[r].resp.errors = {"name", "email"}

\* A notification is due: the backend returned a code the route notifies for.
NotificationDue(q) ==
    /\ q.backend = "returned"
    /\ \/ q.route = "createReservation"
          /\ q.result.code \in {"CREATED_ACTIVE", "CREATED_PENDING"}
       \/ q.route = "c" /\ q.result.code = "CREATED_ACTIVE"
       \/ q.route = "d" /\ q.result.code = "CREATED_CANCELED"

\* C22: whenever a notification is due for a request, the response is sent
\* only after the dispatch attempt has completed, with success or failure:
\* no response is sent while the dispatch is pending or not yet started.
C22_DispatchCompleteBeforeResponse ==
    \A r \in Reqs :
        (st[r].responses > 0 /\ NotificationDue(st[r])) =>
            /\ st[r].emailCalls = 1
            /\ st[r].mail \in {"resolved", "rejected"}

\* The invocations of sendReservationEmail, and those that have settled.
Mailed == {r \in Reqs : st[r].emailCalls > 0}
MailSettled == {r \in Mailed : st[r].mail \in {"resolved", "rejected"}}

\* C23 as stated: invoked with a code outside the three eligible ones the
\* mailer fails with the unknown-code error and calls transporter.sendMail
\* not at all; invoked with one of the three it calls it exactly once, and
\* not again when the call fails.
C23_Original ==
    \A r \in Mailed :
        LET q == st[r]
        IN  /\ q.sendMailCalls <= 1
            /\ q.result.code \notin EligibleCodes =>
                 /\ q.sendMailCalls = 0
                 /\ r \in MailSettled =>
                      q.mail = "rejected" /\ q.mailError = "UnknownCode"
            /\ (q.result.code \in EligibleCodes /\ r \in MailSettled) =>
                 q.sendMailCalls = 1

\* C23, amended: the mailer never calls transporter.sendMail more than once
\* per invocation and never again after a failure. With a code outside the
\* three it fails without a call: with the unknown-code error once the QR
\* code is made, with an earlier error when the result lacks person,
\* performance or reservation or the QR code fails. With one of the three it
\* makes its one call unless such an earlier error or a missing template
\* stops it first.
C23_AtMostOneDispatch ==
    \A r \in Mailed :
        LET q == st[r]
        IN  /\ q.sendMailCalls <= 1
            /\ q.result.code \notin EligibleCodes =>
                 /\ q.sendMailCalls = 0
                 /\ r \in MailSettled =>
                      /\ q.mail = "rejected"
                      /\ q.mailError \in
                           (IF q.result.payload THEN {"QrError", "UnknownCode"}
                            ELSE {"TypeError"})
            /\ (q.result.code \in EligibleCodes /\ r \in MailSettled) =>
                 /\ q.sendMailCalls = 1 <=> q.mailError \in {None, "SendMailError"}
                 /\ q.mail = "resolved" <=> q.mailError = None
                 /\ ~q.result.payload => q.mailError = "TypeError"

\* The one call for CREATED_CANCELED failed and was not repeated.
C23_Witness ==
    \E r \in MailSettled :
        /\ st[r].route = "sendReservationEmail"
        /\ st[r].result.code = "CREATED_CANCELED"
        /\ st[r].mailError = "SendMailError"
        /\ st[r].sendMailCalls = 1

\* An unknown code with a complete result fails with the unknown-code error.
C23_WitnessUnknown ==
    \E r \in MailSettled :
        /\ st[r].result.code = "DUPLICATE_SAME_DATETIME"
        /\ st[r].mailError = "UnknownCode"
        /\ st[r].sendMailCalls = 0

\* What a POST /createReservation request that runs alone ends with, as a
\* function of its body and of the answers its collaborators gave it (the
\* verifier's result or throw, the backend's row or throw, the mailer's
\* outcome): the response and the numbers of verifier calls, backend calls
\* and dispatches.
Outcome(resp, verifyCalls, backendCalls, emailCalls) ==
    [ resp |-> resp, verifyCalls |-> verifyCalls,
      backendCalls |-> backendCalls, emailCalls |-> emailCalls ]

AloneStatus(code) ==
    CASE code \in {"CREATED_ACTIVE", "CREATED_PENDING"} -> 200
      [] code = "DUPLICATE_SAME_DATETIME" -> 409
      [] code \in {"PERFORMANCE_THEATER_NOT_FOUND",
                   "PERFORMANCE_DATETIME_NOT_FOUND"} -> 404
      [] OTHER -> 400

Alone(q) ==
    LET v == IF HasToken(q.body) THEN 1 ELSE 0
        answer(http) ==
            Response(http, IF q.result.fallback THEN "SERVER_ERROR" ELSE None,
                     q.result.code, {}, NoResult, TRUE)
        failed == Response(500, "SERVER_ERROR", None, {}, NoResult, FALSE)
    IN  IF SchemaFailing(q.body) # {}
        THEN Outcome(Response(400, "VALIDATION_ERROR", None,
                              SchemaFailing(q.body), NoResult, FALSE), 0, 0, 0)
        ELSE IF ~PhoneValid(q.body)
        THEN Outcome(Response(400, "INVALID_PHONE", None, {}, NoResult, FALSE),
                     0, 0, 0)
        ELSE IF v = 1 /\ q.vpc = "threw"
        THEN Outcome(failed, 1, 0, 0)
        ELSE IF v = 1 /\ ~q.verify.ok
        THEN Outcome(Response(200, None, "RECAPTCHA_FAILED", {}, q.verify,
                              FALSE), 1, 0, 0)
        ELSE IF q.backend = "threw"
        THEN Outcome(failed, v, 1, 0)
        ELSE IF q.result.code \in {"CREATED_ACTIVE", "CREATED_PENDING"}
        THEN Outcome(IF q.mail = "resolved" THEN answer(200) ELSE failed,
                     v, 1, 1)
        ELSE Outcome(answer(AloneStatus(q.result.code)), v, 1, 0)

\* What a request has ended with.
Ending(q) == Outcome(q.resp, q.verifyCalls, q.backendCalls, q.emailCalls)

\* C24: requests in flight together do not affect one another. Every step
\* is a step of one request, leaves the other request and the configuration
\* as they were, and a request that has ended has the response and the
\* numbers of verifier calls, backend calls and dispatches it has when it
\* runs alone with the same body and the same collaborator answers.
C24_NoInterference ==
    [][ /\ cfg' = cfg
        /\ \A r \in Reqs, s \in Reqs :
             (r # s /\ st'[r] # st[r]) => st'[s] = st[s]
        /\ \A r \in Reqs :
             st'[r].pc = "Done" => Ending(st'[r]) = Alone(st'[r]) ]_vars

\* Both requests were in flight together and ended differently: one was
\* answered 200 with its reservation, the other was stopped by the verifier.
C24_Witness ==
    /\ st[1].pc = "Done" /\ st[2].pc = "Done"
    /\ st[1].resp.http = 200 /\ st[1].resp.code = "CREATED_ACTIVE"
    /\ st[1].emailCalls = 1 /\ st[1].verifyCalls = 0
    /\ st[2].resp.code = "RECAPTCHA_FAILED" /\ st[2].backendCalls = 0

\* The stages a POST /createReservation request may move to from a stage.
StagesAfter(stage) ==
    CASE stage = "Idle"        -> {"Validating"}
      [] stage = "Validating"  -> {"Verifying", "Delegating", "Done"}
      [] stage = "Verifying"   -> {"Delegating", "Done"}
      [] stage = "Delegating"  -> {"Classifying", "Done"}
      [] stage = "Classifying" -> {"Notifying", "Done"}
      [] stage = "Notifying"   -> {"Done"}
      [] stage = "Done"        -> {"Idle"}

\* One step of a POST /createReservation request keeps to the order of the
\* stages: it stays in its stage or moves to a later one (a slot that is
\* Done may take a new request), enters Verifying only with a token and
\* Notifying only for a code that is notified, calls each collaborator at
\* most once, and is Done exactly when its one response is sent.
StageOrder(q, n) ==
    /\ n.pc # q.pc => n.pc \in StagesAfter(q.pc)
    /\ n.pc = "Verifying" => HasToken(n.body) /\ n.verifyCalls = 1
    /\ n.pc = "Delegating" => n.backendCalls = 1 /\ n.backend = "none"
    /\ n.pc = "Notifying" =>
         /\ n.result.code \in {"CREATED_ACTIVE", "CREATED_PENDING"}
         /\ n.emailCalls = 1
    /\ n.verifyCalls <= 1 /\ n.backendCalls <= 1 /\ n.emailCalls <= 1
    /\ n.responses = IF n.pc = "Done" THEN 1 ELSE 0

\* C25: every POST /createReservation request moves through Validating,
\* Verifying (only with a token), Delegating, Classifying, Notifying (only
\* for codes that are notified) and Done in that order, enters no stage
\* twice and calls no collaborator twice, and, the collaborators answering
\* in the end, reaches Done with exactly one response sent.
C25_StagesInOrder ==
    /\ [][ \A r \in Reqs :
             st'[r].route = "createReservation" => StageOrder(st[r], st'[r])
         ]_vars
    /\ \A r \in Running :
         (st[r].pc = "Validating")
            ~> (st[r].pc = "Done" /\ st[r].responses = 1)

\* A request with a token has gone through all six stages.
C25_Witness ==
    \E r \in Created \cap Ended :
        /\ st[r].verifyCalls = 1 /\ st[r].backendCalls = 1
        /\ st[r].emailCalls = 1 /\ st[r].mail = "resolved"
        /\ st[r].responses = 1 /\ st[r].resp.http = 200

\* An expected action is in force: one is configured, or the caller gave one.
InForce(q) ==
    \/ Trim(OrEmpty(cfg.RECAPTCHA_EXPECTED_ACTION)) # ""
    \/ Truthy(q.opts.expectedAction) /\ Trim(q.opts.expectedAction) # ""

\* C26: when an expected action is in force and a successful response has no
\* action at all, the verifier rejects with unexpected_action alone, whatever
\* the score and hostname are, and the result has no action field.
C26_AbsentActionIsMismatch ==
    \A r \in Answered :
        LET q == st[r]
        IN  (q.json.success /\ q.json.action = None /\ InForce(q)) =>
              /\ ~q.verify.ok
              /\ q.verify.reasons = <<"unexpected_action">>
              /\ q.verify.action = None

\* The configured action is in force, the response is successful with a
\* high score and an allowed hostname but no action: rejected.
C26_Witness ==
    \E r \in Answered :
        /\ st[r].impl = Current
        /\ cfg.RECAPTCHA_EXPECTED_ACTION = "reserve"
        /\ st[r].json.success /\ st[r].json.action = None
        /\ st[r].json.score = 9 /\ st[r].json.hostname = "good.gr"
        /\ st[r].verify.reasons = <<"unexpected_action">>
        /\ st[r].verify.action = None

\* The POST /createReservation requests whose backend call returned no row.
NoRow ==
    {r \in Created : st[r].backend = "returned" /\ st[r].result.fallback}

\* C27: when the backend call of POST /createReservation returns without a
\* result row, the handler answers the fallback {ok: false, status:
\* SERVER_ERROR}, which has no code, with 400, and never calls the mailer;
\* it does not answer 500.
C27_NoRowIsClientError ==
    \A r \in NoRow :
        /\ st[r].result.code = None
        /\ st[r].emailCalls = 0 /\ st[r].sendMailCalls = 0
        /\ st[r].pc \in {"Classifying", "Done"}
        /\ r \in Ended =>
             st[r].resp = Response(400, "SERVER_ERROR", None, {}, NoResult, TRUE)

\* A request with an accepted token whose query returned no row is answered
\* 400 with the fallback.
C27_Witness ==
    \E r \in NoRow \cap Ended :
        /\ st[r].verifyCalls = 1
        /\ st[r].resp.http = 400
        /\ st[r].resp.status = "SERVER_ERROR"

\* The invocations that started the deadline timer.
TimerStarted == {r \in Reqs : st[r].timer # "unset"}

\* The external call of q has completed: a response was read, or the fetch
\* failed.
CallCompleted(q) == q.net \in {"responded", "failed"}

\* verifyRecaptchaV3 has left its frame, by return or by throw.
Exited(q) == q.vpc \in {"returned", "threw"}

\* C28: on every exit path of verifyRecaptchaV3 that started the deadline
\* timer (response received, transport failure, timeout) the timer is cleared
\* before the function returns: the timer is pending only while the call is
\* in flight, the abort has never fired on a call that completed, and no
\* timer is pending once the function has exited.
C28_TimerClearedOnExit ==
    \A r \in TimerStarted :
        LET q == st[r]
        IN  /\ q.impl = Current /\ q.fetches = 1
            /\ q.timer = "armed" <=> (q.vpc = "fetching" /\ q.net = "inflight")
            /\ q.timer = "fired" <=> (q.vpc = "aborted" /\ q.net = "aborted")
            /\ CallCompleted(q) => q.timer = "cleared"
            /\ (Exited(q) \/ q.pc # "Verifying") => q.timer = "cleared"

\* The deadline passed, the abort was caught, and the function returned
\* verify_timeout with its timer cleared.
C28_Witness ==
    \E r \in TimerStarted :
        /\ Exited(st[r]) /\ st[r].net = "aborted"
        /\ st[r].timer = "cleared"
        /\ st[r].verify = Rejection("verify_timeout")

\* The other two exit paths: a response was read, and the fetch failed.
C28_WitnessResponse ==
    \E r \in TimerStarted :
        Exited(st[r]) /\ st[r].net = "responded" /\ st[r].timer = "cleared"

C28_WitnessFailure ==
    \E r \in TimerStarted :
        Exited(st[r]) /\ st[r].net = "failed" /\ st[r].timer = "cleared"

====
